---------------------------- MODULE Spec2Model ----------------------------
(***************************************************************************)
(* rimer: timers on a shared key-value store (client.go).                  *)
(*                                                                         *)
(* The store is one keyspace, db, from key strings to values.  Every       *)
(* store command is one atomic step; the commands of one Create, Poll or   *)
(* Next call are separate steps that other processes interleave with.      *)
(* Time passes in Tick steps, which count the time-to-live of expiring     *)
(* entries down and drop the entries that lapse.                           *)
(***************************************************************************)
EXTENDS Integers, Sequences, FiniteSets, TLC

\* ------------------------------------------------------------- bounds
\* Create calls issued in one behaviour.
MaxCreates == 2
\* Store failures (commands that return an error) in one behaviour.
MaxFailures == 1
\* Longest duration handed to Create, in ticks.
MaxDur == 1
\* Readings of time.Now().UnixNano() a Poll call may draw its token from.
MaxNano == 1

\* ---------------------------------------------------------- processes
Pollers == {"p1", "p2"}
Creators == {"c1"}
Consumers == {"n1", "n2"}

\* --------------------------------------------------------- key scheme
defaultPrefix == "timers"

Namespaces == {"foo", "foo:timer"}

timerKey(n, id) == defaultPrefix \o ":" \o n \o ":timer:" \o id

queueKey(n) == defaultPrefix \o ":" \o n \o ":queue"

registeredKey(n) == defaultPrefix \o ":" \o n \o ":registered"

Digits == <<"0", "1", "2", "3", "4", "5", "6", "7", "8", "9">>

RECURSIVE Itoa(_)
Itoa(i) ==
    IF i < 10 THEN Digits[i + 1] ELSE Itoa(i \div 10) \o Digits[(i % 10) + 1]

registeredTempKey(n, nano) ==
    defaultPrefix \o ":" \o n \o ":_registered_" \o Itoa(nano)

registeredTempPrefix(n) == defaultPrefix \o ":" \o n \o ":_registered_*"

\* Identifiers the callers use.  The second one is an opaque string that
\* happens to spell the store key of timer "a" in namespace "foo".
Ids == {"a", timerKey("foo", "a")}

Durations == 0..MaxDur

\* ------------------------------------------------------ store commands
StringVal(ttl) == [type |-> "string", ttl |-> ttl, members |-> {}, items |-> <<>>]

SetVal(m) == [type |-> "set", ttl |-> 0, members |-> m, items |-> <<>>]

ListVal(s) == [type |-> "list", ttl |-> 0, members |-> {}, items |-> s]

Put(d, k, v) == [x \in (DOMAIN d) \cup {k} |-> IF x = k THEN v ELSE d[x]]

\* The store drops a key with the last element of its set or list.
Drop(d, k) == [x \in (DOMAIN d) \ {k} |-> d[x]]

DelLost(d, k) == d

Del(d, k) == Drop(d, k)

Exists(d, k) == IF k \in DOMAIN d THEN 1 ELSE 0

SetLost(d, k, expiration) == d

\* SET key "" with an expiration: go-redis sends a time-to-live only for
\* an expiration above zero, and a key set without one never lapses
\* (ttl 0 stands for "no time-to-live").
Set(d, k, expiration) ==
    Put(d, k, StringVal(IF expiration > 0 THEN expiration ELSE 0))

SMembers(d, k) == IF k \in DOMAIN d THEN d[k].members ELSE {}

SAdd(d, k, ms) == IF ms = {} THEN d ELSE Put(d, k, SetVal(SMembers(d, k) \cup ms))

SRemLost(d, k, m) == d

SRem(d, k, m) ==
    IF SMembers(d, k) \ {m} = {}
    THEN Drop(d, k)
    ELSE Put(d, k, SetVal(SMembers(d, k) \ {m}))

SDiff(d, k1, k2) == SMembers(d, k1) \ SMembers(d, k2)

LRange(d, k) == IF k \in DOMAIN d THEN d[k].items ELSE <<>>

LPushLost(d, k, v) == d

LPushTail(d, k, v) == Put(d, k, ListVal(LRange(d, k) \o <<v>>))

LPush(d, k, v) == Put(d, k, ListVal(<<v>> \o LRange(d, k)))

\* The reply of BRPOP once the list holds an element: the key and the
\* element popped from the tail.
BRPopReply(d, k) == <<k, LRange(d, k)[Len(LRange(d, k))]>>

BRPopKeep(d, k) == d

BRPop(d, k) ==
    IF Len(LRange(d, k)) = 1
    THEN Drop(d, k)
    ELSE Put(d, k, ListVal(SubSeq(LRange(d, k), 1, Len(LRange(d, k)) - 1)))

\* KEYS pattern, for the patterns the library builds: a literal text
\* followed by one "*".
Keys(d, pattern) ==
    {k \in DOMAIN d :
        /\ Len(k) >= Len(pattern) - 1
        /\ SubSeq(k, 1, Len(pattern) - 1) = SubSeq(pattern, 1, Len(pattern) - 1)}

toAny(in) == in

\* ---------------------------------------------------------------- state
VARIABLES
    db,        \* the store: key -> value
    ppc,       \* Poll: where each poller is in its call
    pns,       \* Poll: namespace of the call
    s2,        \* Poll: scratch-set key of the call, until its last use
    keys,      \* Poll: the keys variable
    todo,      \* Poll: elements of keys the range loop has still to visit
    cur,       \* Poll: loop variable k, between its LPUSH and its SREM
    cpc,       \* Create: where each creator is in its call
    cns,       \* Create: namespace of the call
    ckey,      \* Create: key argument
    cdur,      \* Create: duration argument
    npc,       \* Next: where each consumer is in its call
    nns,       \* Next: namespace of the call
    \* history, read by the properties only
    due,       \* per poller: ids registered and lapsed when the call was made
    lapsed,    \* per creator: the entry the call wrote has lapsed since
    leaked,    \* scratch keys that aborted Poll calls left in the store
    inflight,  \* per id: times appended to queue less times returned by Next
    pending,   \* per id: created and not appended to queue since
    calls,     \* Create calls issued
    created,   \* per id: Create calls issued for it
    failures   \* store failures so far

pvars == <<ppc, pns, s2, keys, todo, cur>>
cvars == <<cpc, cns, ckey, cdur>>
nvars == <<npc, nns>>
hvars == <<due, lapsed, leaked, inflight, pending, calls, created, failures>>
vars == <<db, pvars, cvars, nvars, hvars>>

\* The namespace is a single one unless a call says otherwise.
NS == "foo"

\* Live timer entries of a namespace: the KEYS reply for timerKey("*").
LiveKeys(n) == Keys(db, timerKey(n, "*"))

Live(n, id) == timerKey(n, id) \in LiveKeys(n)

Registered(n) == SMembers(db, registeredKey(n))

Queue(n) == LRange(db, queueKey(n))

ScratchKeys(n) == Keys(db, registeredTempPrefix(n))

Init ==
    /\ db = [k \in {} |-> StringVal(0)]
    /\ ppc = [p \in Pollers |-> "idle"]
    /\ pns = [p \in Pollers |-> NS]
    /\ s2 = [p \in Pollers |-> ""]
    /\ keys = [p \in Pollers |-> {}]
    /\ todo = [p \in Pollers |-> {}]
    /\ cur = [p \in Pollers |-> ""]
    /\ cpc = [c \in Creators |-> "idle"]
    /\ cns = [c \in Creators |-> NS]
    /\ ckey = [c \in Creators |-> ""]
    /\ cdur = [c \in Creators |-> 0]
    /\ npc = [c \in Consumers |-> "idle"]
    /\ nns = [c \in Consumers |-> NS]
    /\ due = [p \in Pollers |-> {}]
    /\ lapsed = [c \in Creators |-> FALSE]
    /\ leaked = {}
    /\ inflight = [i \in Ids |-> 0]
    /\ pending = [i \in Ids |-> FALSE]
    /\ calls = 0
    /\ created = [i \in Ids |-> 0]
    /\ failures = 0


\* ------------------------------------------------------------- helpers
\* Time-to-live bookkeeping of the store: one tick of time.
Lapsing(d) == {k \in DOMAIN d : d[k].type = "string" /\ d[k].ttl = 1}

Expire(d) ==
    [k \in (DOMAIN d) \ Lapsing(d) |->
        IF d[k].type = "string" /\ d[k].ttl > 1
        THEN StringVal(d[k].ttl - 1)
        ELSE d[k]]

Tick ==
    /\ \E k \in DOMAIN db : db[k].type = "string" /\ db[k].ttl > 0
    /\ db' = Expire(db)
    /\ lapsed' = [c \in Creators |->
                    lapsed[c] \/ (cpc[c] = "sadd"
                                  /\ timerKey(cns[c], ckey[c]) \in Lapsing(db))]
    /\ UNCHANGED <<pvars, cvars, nvars>>
    /\ UNCHANGED <<due, leaked, inflight, pending, calls, created, failures>>

\* -------------------------------------------------------------- Create
CreateSAddFirst(c, n, id, d) ==
    /\ cpc[c] = "idle"
    /\ calls < MaxCreates
    /\ db' = SAdd(db, registeredKey(n), {id})
    /\ cpc' = [cpc EXCEPT ![c] = "sadd"]
    /\ cns' = [cns EXCEPT ![c] = n]
    /\ ckey' = [ckey EXCEPT ![c] = id]
    /\ cdur' = [cdur EXCEPT ![c] = d]
    /\ lapsed' = [lapsed EXCEPT ![c] = FALSE]
    /\ calls' = calls + 1
    /\ created' = [created EXCEPT ![id] = @ + 1]
    /\ UNCHANGED <<pvars, nvars>>
    /\ UNCHANGED <<due, leaked, inflight, pending, failures>>

\* Create queues SET and SADD on a pipeline; Pipelined then sends both.
\* The store runs them in that order, each atomically, not as one step.
\* CreateSet is the call up to and including the SET command.
CreateSet(c, n, id, d) ==
    /\ cpc[c] = "idle"
    /\ calls < MaxCreates
    /\ db' = Set(db, timerKey(n, id), d)
    /\ cpc' = [cpc EXCEPT ![c] = "sadd"]
    /\ cns' = [cns EXCEPT ![c] = n]
    /\ ckey' = [ckey EXCEPT ![c] = id]
    /\ cdur' = [cdur EXCEPT ![c] = d]
    /\ lapsed' = [lapsed EXCEPT ![c] = FALSE]
    /\ calls' = calls + 1
    /\ created' = [created EXCEPT ![id] = @ + 1]
    /\ UNCHANGED <<pvars, nvars>>
    /\ UNCHANGED <<due, leaked, inflight, pending, failures>>

\* The SADD command, after which Create returns nil.
CreateSAdd(c) ==
    /\ cpc[c] = "sadd"
    /\ db' = SAdd(db, registeredKey(cns[c]), {ckey[c]})
    /\ cpc' = [cpc EXCEPT ![c] = "idle"]
    /\ ckey' = [ckey EXCEPT ![c] = ""]
    /\ cdur' = [cdur EXCEPT ![c] = 0]
    /\ pending' = [pending EXCEPT ![ckey[c]] = TRUE]
    /\ due' = [p \in Pollers |-> due[p] \ {ckey[c]}]
    /\ UNCHANGED <<cns, pvars, nvars>>
    /\ UNCHANGED <<lapsed, leaked, inflight, calls, created, failures>>

\* A store failure after the SET command: SADD is not run, and Create
\* returns the error.
CreateFail(c) ==
    /\ cpc[c] = "sadd"
    /\ failures < MaxFailures
    /\ cpc' = [cpc EXCEPT ![c] = "idle"]
    /\ ckey' = [ckey EXCEPT ![c] = ""]
    /\ cdur' = [cdur EXCEPT ![c] = 0]
    /\ failures' = failures + 1
    /\ UNCHANGED <<db, cns, pvars, nvars>>
    /\ UNCHANGED <<due, lapsed, leaked, inflight, pending, calls, created>>

\* ---------------------------------------------------------------- Poll
\* getRegisteredTempSet: the EXISTS command is queued on the pipeline p,
\* which runs only after Poll's function has returned, so the reply read
\* here is the zero value of a command that has not run.
getRegisteredTempSet(d, n, nano) ==
    LET key == registeredTempKey(n, nano)
        exists == 0
    IN  IF exists = 1 THEN [s2 |-> "", err |-> TRUE] ELSE [s2 |-> key, err |-> FALSE]

\* Ids that are registered, have no live entry and are not being created.
Due(n) ==
    {id \in Ids :
        /\ id \in Registered(n)
        /\ ~Live(n, id)
        /\ \A c \in Creators : cpc[c] = "idle" \/ ckey[c] # id}

ReturnNever(p) ==
    /\ ppc' = [ppc EXCEPT ![p] = "range"]
    /\ s2' = [s2 EXCEPT ![p] = ""]
    /\ keys' = [keys EXCEPT ![p] = {}]
    /\ todo' = [todo EXCEPT ![p] = {}]
    /\ cur' = [cur EXCEPT ![p] = ""]
    /\ due' = [due EXCEPT ![p] = {}]
    /\ UNCHANGED pns

\* Poll returns: its locals are gone.  On a nil return Pipelined runs the
\* queued EXISTS command, whose reply nothing reads.
Return(p) ==
    /\ ppc' = [ppc EXCEPT ![p] = "idle"]
    /\ s2' = [s2 EXCEPT ![p] = ""]
    /\ keys' = [keys EXCEPT ![p] = {}]
    /\ todo' = [todo EXCEPT ![p] = {}]
    /\ cur' = [cur EXCEPT ![p] = ""]
    /\ due' = [due EXCEPT ![p] = {}]
    /\ UNCHANGED pns

\* The range loop over keys: with nothing left to visit, Poll returns.
Range(p, rest) ==
    IF rest = {}
    THEN Return(p)
    ELSE /\ ppc' = [ppc EXCEPT ![p] = "range"]
         /\ todo' = [todo EXCEPT ![p] = rest]
         /\ s2' = [s2 EXCEPT ![p] = ""]
         /\ cur' = [cur EXCEPT ![p] = ""]
         /\ UNCHANGED <<pns, due>>

\* The call up to and including the KEYS command.
PollKeys(p, n, nano) ==
    /\ ppc[p] = "idle"
    /\ LET t == getRegisteredTempSet(db, n, nano)
           found == Keys(db, timerKey(n, "*"))
       IN  IF t.err
           THEN Return(p)
           ELSE /\ ppc' = [ppc EXCEPT ![p] = IF found # {} THEN "sadd" ELSE "smembers"]
                /\ pns' = [pns EXCEPT ![p] = n]
                /\ s2' = [s2 EXCEPT ![p] = t.s2]
                /\ keys' = [keys EXCEPT ![p] = found]
                /\ due' = [due EXCEPT ![p] = Due(n)]
                /\ UNCHANGED <<todo, cur>>
    /\ UNCHANGED <<db, cvars, nvars>>
    /\ UNCHANGED <<lapsed, leaked, inflight, pending, calls, created, failures>>

PollSAdd(p) ==
    /\ ppc[p] = "sadd"
    /\ db' = SAdd(db, s2[p], toAny(keys[p]))
    /\ ppc' = [ppc EXCEPT ![p] = "sdiff"]
    /\ UNCHANGED <<pns, s2, keys, todo, cur, cvars, nvars, hvars>>

PollSDiff(p) ==
    /\ ppc[p] = "sdiff"
    /\ keys' = [keys EXCEPT ![p] = SDiff(db, registeredKey(pns[p]), s2[p])]
    /\ ppc' = [ppc EXCEPT ![p] = "del"]
    /\ UNCHANGED <<db, pns, s2, todo, cur, cvars, nvars, hvars>>

PollDel(p) ==
    /\ ppc[p] = "del"
    /\ db' = Del(db, s2[p])
    /\ leaked' = leaked \ {s2[p]}
    /\ Range(p, keys[p])
    /\ IF keys[p] = {} THEN TRUE ELSE UNCHANGED keys
    /\ UNCHANGED <<cvars, nvars>>
    /\ UNCHANGED <<lapsed, inflight, pending, calls, created, failures>>

PollSMembersNone(p) ==
    /\ ppc[p] = "smembers"
    /\ Return(p)
    /\ UNCHANGED <<db, cvars, nvars>>
    /\ UNCHANGED <<lapsed, leaked, inflight, pending, calls, created, failures>>

PollSMembers(p) ==
    /\ ppc[p] = "smembers"
    /\ LET members == SMembers(db, registeredKey(pns[p]))
       IN  /\ Range(p, members)
           /\ IF members = {} THEN TRUE ELSE keys' = [keys EXCEPT ![p] = members]
    /\ UNCHANGED <<db, cvars, nvars>>
    /\ UNCHANGED <<lapsed, leaked, inflight, pending, calls, created, failures>>

\* The element the range loop visits next: the reply's order is the
\* store's, so any element not yet visited.
RangeNext(p) == todo[p]

PollLPush(p) ==
    /\ ppc[p] = "range"
    /\ \E k \in RangeNext(p) :
        /\ db' = LPush(db, queueKey(pns[p]), k)
        /\ cur' = [cur EXCEPT ![p] = k]
        /\ todo' = [todo EXCEPT ![p] = @ \ {k}]
        /\ inflight' = [inflight EXCEPT ![k] = @ + 1]
        /\ pending' = [pending EXCEPT ![k] = FALSE]
    /\ ppc' = [ppc EXCEPT ![p] = "srem"]
    /\ UNCHANGED <<pns, s2, keys, cvars, nvars>>
    /\ UNCHANGED <<due, lapsed, leaked, calls, created, failures>>

PollSRemSkip(p) ==
    /\ ppc[p] = "srem"
    /\ Range(p, todo[p])
    /\ IF todo[p] = {} THEN TRUE ELSE UNCHANGED keys
    /\ UNCHANGED <<db, cvars, nvars>>
    /\ UNCHANGED <<lapsed, leaked, inflight, pending, calls, created, failures>>

PollSRem(p) ==
    /\ ppc[p] = "srem"
    /\ db' = SRem(db, registeredKey(pns[p]), cur[p])
    /\ Range(p, todo[p])
    /\ IF todo[p] = {} THEN TRUE ELSE UNCHANGED keys
    /\ UNCHANGED <<cvars, nvars>>
    /\ UNCHANGED <<lapsed, leaked, inflight, pending, calls, created, failures>>

\* A store failure: the command the call is about to run returns an
\* error instead, and Poll returns it at once.
PollFail(p) ==
    /\ ppc[p] # "idle"
    /\ failures < MaxFailures
    /\ Return(p)
    /\ failures' = failures + 1
    /\ leaked' = leaked \cup ({s2[p]} \cap DOMAIN db)
    /\ UNCHANGED <<db, cvars, nvars>>
    /\ UNCHANGED <<lapsed, inflight, pending, calls, created>>

\* ---------------------------------------------------------------- Next
NextCall(c, n) ==
    /\ npc[c] = "idle"
    /\ npc' = [npc EXCEPT ![c] = "brpop"]
    /\ nns' = [nns EXCEPT ![c] = n]
    /\ UNCHANGED <<db, pvars, cvars, hvars>>

\* BRPOP with timeout 0 answers only once the list holds an element.
\* Next returns the second element of a reply of two.
NextBRPop(c) ==
    /\ npc[c] = "brpop"
    /\ Queue(nns[c]) # <<>>
    /\ LET reply == BRPopReply(db, queueKey(nns[c]))
       IN  /\ db' = BRPop(db, queueKey(nns[c]))
           /\ inflight' = IF Len(reply) # 2
                          THEN inflight
                          ELSE [inflight EXCEPT ![reply[2]] = @ - 1]
    /\ npc' = [npc EXCEPT ![c] = "idle"]
    /\ UNCHANGED <<nns, pvars, cvars>>
    /\ UNCHANGED <<due, lapsed, leaked, pending, calls, created, failures>>

\* The blocking pop fails, or its context is cancelled.
NextFail(c) ==
    /\ npc[c] = "brpop"
    /\ failures < MaxFailures
    /\ npc' = [npc EXCEPT ![c] = "idle"]
    /\ failures' = failures + 1
    /\ UNCHANGED <<db, nns, pvars, cvars>>
    /\ UNCHANGED <<due, lapsed, leaked, inflight, pending, calls, created>>

\* ------------------------------------------------------ specifications
Nanos == 1..MaxNano

\* Processes with a call in progress.
Busy ==
    {p \in Pollers : ppc[p] # "idle"} \cup {c \in Creators : cpc[c] # "idle"}
        \cup {c \in Consumers : npc[c] # "idle"}

\* One poller, one creator and one consumer, their calls interleaved
\* command by command, with store failures.
Next ==
    \/ Tick
    \/ \E c \in Creators, id \in Ids, d \in Durations : CreateSet(c, NS, id, d)
    \/ \E c \in Creators : CreateSAdd(c)
    \/ \E c \in Creators : CreateFail(c)
    \/ \E nano \in Nanos : PollKeys("p1", NS, nano)
    \/ PollSAdd("p1")
    \/ PollSDiff("p1")
    \/ PollDel("p1")
    \/ PollSMembers("p1")
    \/ PollLPush("p1")
    \/ PollSRem("p1")
    \/ PollFail("p1")
    \/ NextCall("n1", NS)
    \/ NextBRPop("n1")
    \/ NextFail("n1")

Spec == Init /\ [][Next]_vars

\* One poller, one creator and two consumers, interleaved command by
\* command, with no store failure.
NextConsumers ==
    \/ Tick
    \/ \E c \in Creators, id \in Ids, d \in Durations : CreateSet(c, NS, id, d)
    \/ \E c \in Creators : CreateSAdd(c)
    \/ \E nano \in Nanos : PollKeys("p1", NS, nano)
    \/ PollSAdd("p1")
    \/ PollSDiff("p1")
    \/ PollDel("p1")
    \/ PollSMembers("p1")
    \/ PollLPush("p1")
    \/ PollSRem("p1")
    \/ \E c \in Consumers : NextCall(c, NS)
    \/ \E c \in Consumers : NextBRPop(c)

SpecConsumers == Init /\ [][NextConsumers]_vars

\* Two pollers interleaved command by command, with no store failure
\* and nobody consuming; Create is called while no Poll call is in
\* progress and returns before the next one begins.
NextPollers ==
    \/ Tick
    \/ \E c \in Creators, id \in Ids, d \in Durations :
          (\A p \in Pollers : ppc[p] = "idle") /\ CreateSet(c, NS, id, d)
    \/ \E c \in Creators : CreateSAdd(c)
    \/ \E p \in Pollers, nano \in Nanos :
          (\A c \in Creators : cpc[c] = "idle") /\ PollKeys(p, NS, nano)
    \/ \E p \in Pollers : PollSAdd(p)
    \/ \E p \in Pollers : PollSDiff(p)
    \/ \E p \in Pollers : PollDel(p)
    \/ \E p \in Pollers : PollSMembers(p)
    \/ \E p \in Pollers : PollLPush(p)
    \/ \E p \in Pollers : PollSRem(p)

SpecPollers == Init /\ [][NextPollers]_vars

\* One process at a time: a call begins only when no other call is in
\* progress.  Time still passes at any moment.
NextSeq ==
    \/ Tick
    \/ \E c \in Creators, id \in Ids, d \in Durations :
          Busy = {} /\ CreateSet(c, NS, id, d)
    \/ \E c \in Creators : CreateSAdd(c)
    \/ \E nano \in Nanos : Busy = {} /\ PollKeys("p1", NS, nano)
    \/ PollSAdd("p1")
    \/ PollSDiff("p1")
    \/ PollDel("p1")
    \/ PollSMembers("p1")
    \/ PollLPush("p1")
    \/ PollSRem("p1")
    \/ Busy = {} /\ NextCall("n1", NS)
    \/ NextBRPop("n1")

SpecSeq == Init /\ [][NextSeq]_vars

\* -------------------------------------------------------------- claims
Count(seq, x) == Cardinality({i \in 1..Len(seq) : seq[i] = x})

\* The entry of id was written with a duration d > 0 that has not run out.
Running(n, id) == Live(n, id) /\ db[timerKey(n, id)].ttl > 0

\* C1 (as claimed): no premature delivery.  When calls do not overlap, no
\* step appends to queue, or removes from registered, an id that Create
\* has registered with a duration d > 0 and whose timer entry is live
\* before and after the step.
NoPrematureDelivery ==
    [][\A id \in Ids :
          (id \in Registered(NS) /\ Running(NS, id) /\ Running(NS, id)')
              => /\ Count(Queue(NS)', id) <= Count(Queue(NS), id)
                 /\ id \in Registered(NS)']_vars

\* C2 (as claimed): eventual delivery.  When a Poll call returns without
\* error, every id that was registered with a lapsed entry when the call
\* was made, and has not been created again since, has been appended to
\* queue and is no longer in registered.
EventualDelivery ==
    [][\A p \in Pollers :
          (ppc[p] # "idle" /\ ppc'[p] = "idle" /\ failures' = failures)
              => \A id \in due[p] : id \notin Registered(NS)' /\ ~pending'[id]]_vars

\* C3 (as claimed): under every interleaving of Create and Poll, no step
\* appends to queue, or removes from registered, an id whose timer entry
\* is live.
PollNeverMovesLive ==
    [][\A id \in Ids :
          Live(NS, id)
              => /\ Count(Queue(NS)', id) <= Count(Queue(NS), id)
                 /\ id \in Registered(NS) => id \in Registered(NS)']_vars

\* C4: exactly-one consumption per push.  For every id, the number of its
\* occurrences in queue is the number of times it was appended less the
\* number of times Next returned it: each appended element is returned at
\* most once and is gone from queue once returned.
QueueConservation == \A id \in Ids : inflight[id] = Count(Queue(NS), id)

\* C4 witness: "a" was created once and appended once; of two consumers,
\* one has returned and the other still waits on the emptied queue.
OnePopOfTwoWaiting ==
    /\ calls = 1 /\ failures = 0 /\ Busy = {"n2"}
    /\ "a" \notin Registered(NS) /\ ~pending["a"]
    /\ Queue(NS) = <<>>
    /\ inflight["a"] = 0

\* C5: double delivery is reachable (the witness), and it is bounded:
\* with no store failure and nobody consuming, an id occurs in queue at
\* most once per poller for every Create call made.
AppendsBounded ==
    \A id \in Ids : Count(Queue(NS), id) <= Cardinality(Pollers) * calls

\* C5 witness: one Create call, no store failure, and the id, whose entry
\* has lapsed, is in queue twice.
DoubleDelivery ==
    /\ calls = 1 /\ failures = 0
    /\ \E id \in Ids : Count(Queue(NS), id) >= 2 /\ ~Live(NS, id)

\* C6 (as claimed): in every reachable state an id is in registered iff
\* it has been created and not appended to queue since.
CoreInvariant == \A id \in Ids : (id \in Registered(NS)) <=> pending[id]

\* C7 (as claimed): a Poll call whose scratch-set name is already taken
\* fails at once, so no call goes on with a name that exists in the store.
TakenScratchNameFails ==
    [][\A p \in Pollers :
          (ppc[p] = "idle" /\ ppc'[p] # "idle") => s2'[p] \notin DOMAIN db]_vars

\* C8 (as claimed): when a store failure aborts a Poll call, every id the
\* call has appended to queue is no longer in registered (unless it was
\* created again after the append); the others are untouched.
AbortedPollMovedOrUntouched ==
    [][\A p \in Pollers :
          (ppc[p] \in {"range", "srem"} /\ ppc'[p] = "idle" /\ failures' # failures)
              => \A k \in keys[p] \ todo[p] :
                    k \in Registered(NS)' => pending'[k]]_vars

\* Scratch keys of the Poll calls that have run SADD and not yet DEL.
Held == {s2[p] : p \in {q \in Pollers : ppc[q] \in {"sdiff", "del"}}}

\* C9 (as claimed): whenever no Poll call is in progress, no scratch key
\* exists.
NoScratchWhenIdle ==
    (\A p \in Pollers : ppc[p] = "idle") => ScratchKeys(NS) = {}

\* C9 (amended): every scratch key that exists is held by a Poll call in
\* progress or was left by a Poll call that a store failure aborted; so
\* with no call in progress and none aborted, no scratch key exists.
ScratchHeldOrLeaked == ScratchKeys(NS) \subseteq (Held \cup leaked)

\* C9 witness: a Poll call holds the scratch set it created and is about
\* to delete it; nothing has failed.
ScratchInUse ==
    /\ failures = 0 /\ leaked = {}
    /\ \E p \in Pollers : ppc[p] = "del" /\ ScratchKeys(NS) = {s2[p]}

ZeroDurationAlreadyDue ==
    [][\A c \in Creators :
          (cpc[c] = "sadd" /\ cpc'[c] = "idle" /\ failures' = failures /\ cdur[c] = 0)
              => /\ ckey[c] \in Registered(NS)'
                 /\ timerKey(NS, ckey[c]) \notin LiveKeys(NS)']_vars

\* C12 (as claimed): re-Create is idempotent apart from the expiry.  When
\* calls do not overlap, a Create call for an id already in registered
\* leaves registered and queue as they were and one timer entry for the
\* id, live unless its new duration has already run out; and no step
\* appends to queue, or removes from registered, an id created again with
\* a duration d > 0 while its entry is live.
ReCreateIdempotent ==
    [][/\ \A c \in Creators :
            (/\ cpc[c] = "sadd" /\ cpc'[c] = "idle" /\ failures' = failures
             /\ ckey[c] \in Registered(NS))
                => /\ Registered(NS)' = Registered(NS)
                   /\ Queue(NS)' = Queue(NS)
                   /\ lapsed[c] \/ timerKey(NS, ckey[c]) \in LiveKeys(NS)'
       /\ \A id \in Ids :
            (/\ created[id] >= 2 /\ id \in Registered(NS)
             /\ Running(NS, id) /\ Running(NS, id)')
                => /\ Count(Queue(NS)', id) <= Count(Queue(NS), id)
                   /\ id \in Registered(NS)']_vars

\* Calls made one at a time, as in NextSeq, in any of the namespaces.
NextNs ==
    \/ Tick
    \/ \E c \in Creators, n \in Namespaces, id \in Ids, d \in Durations :
          Busy = {} /\ CreateSet(c, n, id, d)
    \/ \E c \in Creators : CreateSAdd(c)
    \/ \E n \in Namespaces, nano \in Nanos : Busy = {} /\ PollKeys("p1", n, nano)
    \/ PollSAdd("p1")
    \/ PollSDiff("p1")
    \/ PollDel("p1")
    \/ PollSMembers("p1")
    \/ PollLPush("p1")
    \/ PollSRem("p1")
    \/ \E n \in Namespaces : Busy = {} /\ NextCall("n1", n)
    \/ NextBRPop("n1")

SpecNs == Init /\ [][NextNs]_vars

\* Identifiers a caller may pass: any string, among them ones spelled
\* like the tail of a key.
KeyIds == Ids \cup {"queue", "timer:a"}

\* The keys derived for a namespace.
KeysOf(n) ==
    {timerKey(n, id) : id \in KeyIds}
        \cup {queueKey(n), registeredKey(n)}
        \cup {registeredTempKey(n, nano) : nano \in Nanos}

\* The namespaces of the calls that take a step.
Acting ==
    {pns'[p] : p \in {q \in Pollers : ppc'[q] # ppc[q]}}
        \cup {cns'[c] : c \in {q \in Creators : cpc'[q] # cpc[q]}}
        \cup {nns'[c] : c \in {q \in Consumers : npc'[q] # npc[q]}}

KeysDisjoint ==
    \A n \in Namespaces, m \in Namespaces : n # m => KeysOf(n) \cap KeysOf(m) = {}

\* C13 (as claimed): namespace isolation.  The keys derived for two
\* namespaces with different names are disjoint; a step of a call in one
\* namespace changes no key of another, and the scan of a Poll call
\* returns no key of another namespace.
NamespaceIsolation ==
    [][/\ KeysDisjoint
       /\ Acting # {}
            => \A m \in Namespaces \ Acting : \A k \in KeysOf(m) :
                  /\ k \in DOMAIN db' <=> k \in DOMAIN db
                  /\ k \in DOMAIN db => db'[k] = db[k]
       /\ \A p \in Pollers :
            (ppc[p] = "idle" /\ ppc'[p] # "idle")
                => \A m \in Namespaces \ {pns'[p]} : keys'[p] \cap KeysOf(m) = {}]_vars

\* A namespace with zero registered timers: no timer entry, registered
\* and queue empty.
Empty(n) == LiveKeys(n) = {} /\ Registered(n) = {} /\ Queue(n) = <<>>

\* C14: idle poll is a no-op.  When calls do not overlap, a Poll call made
\* on an empty namespace scans, finds nothing, reads registered and
\* returns without error, leaving the namespace empty and no scratch key.
IdlePollNoOp ==
    [][\A p \in Pollers :
          /\ (ppc[p] = "idle" /\ ppc'[p] # "idle" /\ Empty(NS))
                => ppc'[p] = "smembers" /\ db' = db
          /\ (ppc[p] = "smembers" /\ ppc'[p] # "smembers" /\ Empty(NS))
                => /\ ppc'[p] = "idle" /\ failures' = failures
                   /\ Empty(NS)' /\ ScratchKeys(NS)' = {}]_vars

\* C14 witness: a timer was created, delivered and consumed; a Poll call
\* has scanned the emptied namespace and is about to read registered.
IdlePollScanned ==
    /\ calls = 1 /\ Empty(NS) /\ ScratchKeys(NS) = {}
    /\ ppc["p1"] = "smembers"

\* C15 (as claimed): set-difference exactness.  When the scan of a Poll
\* call has found a live entry, the ids the SDIFF command selects for
\* moving are exactly the members of registered whose timer entry the
\* scan did not find: the difference excludes every live timer.
SetDifferenceExact ==
    [][\A p \in Pollers :
          (ppc[p] = "sdiff" /\ ppc'[p] = "del")
              => keys'[p] = {id \in Registered(NS) : timerKey(NS, id) \notin keys[p]}]_vars

\* C16: all-expired shortcut.  With no store failure, when the scan of a
\* Poll call found no live entry, the call reads registered, creates no
\* scratch set, and selects every member of registered, which is what
\* SDIFF against its absent scratch set would give; the loop then appends
\* each selected id to queue and removes it from registered, one by one.
AllExpiredShortcut ==
    [][\A p \in Pollers :
          /\ (ppc[p] = "smembers" /\ ppc'[p] # "smembers")
                => /\ todo'[p] = Registered(NS)
                   /\ todo'[p] = SDiff(db, registeredKey(NS), s2[p])
                   /\ s2[p] \notin DOMAIN db
                   /\ db' = db
          /\ (ppc[p] = "range" /\ ppc'[p] = "srem")
                => /\ cur'[p] \in todo[p]
                   /\ todo'[p] = todo[p] \ {cur'[p]}
                   /\ Queue(NS)' = <<cur'[p]>> \o Queue(NS)
                   /\ Registered(NS)' = Registered(NS)
          /\ (ppc[p] = "srem" /\ ppc'[p] # "srem")
                => /\ Registered(NS)' = Registered(NS) \ {cur[p]}
                   /\ Queue(NS)' = Queue(NS)
                   /\ todo'[p] = todo[p]]_vars

\* C16 witness: every id is registered and every entry has lapsed; the
\* scan of a Poll call found nothing and the call is about to read
\* registered.
AllExpiredScanned ==
    /\ ppc["p1"] = "smembers"
    /\ Registered(NS) = Ids /\ LiveKeys(NS) = {} /\ ScratchKeys(NS) = {}

\* C17: the queue is first-in first-out.  Every step that lengthens queue
\* puts one id at its head and keeps the rest in order; every step that
\* shortens it takes the id at its tail, the one appended earliest, keeps
\* the rest in order, and that id is the one Next returns.
FifoOrder ==
    [][/\ Len(Queue(NS)') > Len(Queue(NS))
            => \E k \in Ids : Queue(NS)' = <<k>> \o Queue(NS)
       /\ Len(Queue(NS)') < Len(Queue(NS))
            => LET first == Queue(NS)[Len(Queue(NS))]
               IN  /\ Queue(NS)' = SubSeq(Queue(NS), 1, Len(Queue(NS)) - 1)
                   /\ inflight'[first] = inflight[first] - 1]_vars

\* C17 witness: two different ids are in queue, appended one after the
\* other, and a Next call is about to pop.
TwoQueuedOneWaiting ==
    /\ Len(Queue(NS)) = 2 /\ Queue(NS)[1] # Queue(NS)[2]
    /\ npc["n1"] = "brpop"

\* C18: no timer is lost.  When no id is created more than once, in every
\* state, also after aborted Poll calls and with Poll and Next running
\* concurrently, every id that was created and not appended to queue
\* since, or appended and not yet returned by Next, is in registered or in
\* queue.
NoTimerLost ==
    (\A i \in Ids : created[i] <= 1)
        => \A id \in Ids :
              (pending[id] \/ inflight[id] > 0)
                  => id \in Registered(NS) \/ Count(Queue(NS), id) > 0

\* C18 witness: the Poll call that selected "a", created once, was
\* aborted between its LPUSH and its SREM: "a" is in queue and still in
\* registered.
AbortedAfterPush ==
    /\ calls = 1 /\ created["a"] = 1 /\ failures = 1 /\ Busy = {}
    /\ "a" \in Registered(NS) /\ Count(Queue(NS), "a") = 1

\* C19: Create's two writes are ordered and not atomic.  Every id in
\* registered has had its timer entry written; while the first Create
\* call for an id is between its two writes, the entry is written (live,
\* or lapsed since), the id is not in registered, and no Poll call has
\* selected or appended it.
CreateWritesOrdered ==
    /\ \A id \in Registered(NS) : id \in Ids /\ created[id] >= 1
    /\ \A c \in Creators :
          (cpc[c] = "sadd" /\ created[ckey[c]] = 1)
              => /\ Live(NS, ckey[c]) \/ lapsed[c]
                 /\ ckey[c] \notin Registered(NS)
                 /\ inflight[ckey[c]] = 0
                 /\ \A p \in Pollers :
                       ppc[p] \in {"del", "range", "srem"} => ckey[c] \notin keys[p]

\* C19 witness: the only Create call made is between its two writes; a
\* Poll call made after the first write has scanned the new entry, run
\* SDIFF and selected nothing.
PollBetweenWrites ==
    /\ calls = 1 /\ failures = 0
    /\ cpc["c1"] = "sadd"
    /\ ppc["p1"] = "del" /\ keys["p1"] = {}

\* C20: at-most-once push without overlap.  With one poller, whose calls
\* therefore never overlap, and no store failure, an id created at most
\* once is appended to queue only while it is created and not appended
\* since, which the append ends; so it is appended at most once, and at
\* most one occurrence of it awaits a Next call.
AtMostOncePush ==
    [][\A id \in Ids :
          created[id] <= 1
              => /\ Count(Queue(NS)', id) > Count(Queue(NS), id)
                    => pending[id] /\ ~pending'[id]
                 /\ inflight'[id] <= 1
                 /\ (~pending[id] /\ pending'[id]) => created[id] = 1 /\ inflight[id] = 0]_vars

\* C20 witness: "a", created once, was appended and removed from
\* registered; a later Poll call is in progress and finds nothing to move.
SecondPollAfterDelivery ==
    /\ calls = 1 /\ created["a"] = 1 /\ failures = 0
    /\ Count(Queue(NS), "a") = 1 /\ "a" \notin Registered(NS)
    /\ ppc["p1"] = "smembers"

=============================================================================
